---- MODULE Spec2Model ----
(***************************************************************************)
(* Steering of the molecular-design campaign with Colmena: the notebook    *)
(* cells that drive the task queues and the RandomThinker class, together  *)
(* with the Colmena primitives they call (ResourceCounter, PipeQueues,     *)
(* the task_submitter / result_processor agents and BaseThinker.run).      *)
(*                                                                         *)
(* A Colmena primitive is modelled at the place the notebook calls it, by  *)
(* what the library does there:                                            *)
(*  - ResourceCounter keeps, per pool, an allocation count and a semaphore *)
(*    of available slots; acquire takes from the semaphore, release gives  *)
(*    back to the semaphore of the same pool, reallocate acquires from one *)
(*    pool, moves the allocation and releases into the other.              *)
(*  - PipeQueues keeps one request pipe and one result pipe per topic.     *)
(*  - task_submitter loops "while not done: if acquire(cancel_if=done):    *)
(*    f()", result_processor loops "while not done: get_result(timeout);   *)
(*    f(result)", and an agent that exits (normally or by an exception)    *)
(*    sets done; run returns when every agent thread has exited.           *)
(*                                                                         *)
(* The module also holds the BatchedThinker of the same campaign (its      *)
(* simulate agents and its retraining cycle over the train and infer       *)
(* pools) and the batch workflow written with Parsl futures: the initial   *)
(* loop, the train / run_model / combine_inferences pipeline and the       *)
(* selection and collection of a batch. There n_to_evaluate stands for     *)
(* search_count, BatchSize for batch_size and Mols for the search space.   *)
(***************************************************************************)
EXTENDS Integers, Sequences, FiniteSets, TLC

\* Bounds of the model (scaled-down settings of the campaign).
NParallel == 2
NToEvaluate == 2
MaxMols == 3
MaxNotebookSends == 3

\* @task_submitter(task_type='simulate', n_slots=1)
N_SLOTS == 1

Mols == 1 .. MaxMols
TaskTypes == {"simulate", "train", "infer"}
Pools == TaskTypes \cup {"None"}
Topics == TaskTypes \cup {"default"}

\* The molecule the notebook cells send by hand ('C'); not in the search space.
DemoMol == 0

NoResult == [args |-> DemoMol, topic |-> "none", success |-> FALSE]

VARIABLES
    allocations,         \* ResourceCounter: slots allocated to each pool
    availability,        \* ResourceCounter: semaphore value of each pool
    done,                \* BaseThinker.done (threading.Event)
    priority_list,       \* RandomThinker.priority_list
    priority_list_lock,  \* RandomThinker.priority_list_lock: "free" or its holder
    database,            \* keys of RandomThinker.database
    simulation_results,  \* RandomThinker.simulation_results
    rec_progbar,         \* count of the 'started' progress bar
    sent_progbar,        \* count of the 'successful' progress bar
    requests,            \* request pipe: tasks sent and not yet completed
    results,             \* result pipes, one per topic
    main_pc,             \* the notebook's thread
    submit_pc,           \* the submit_calc agent thread
    next_mol,            \* submit_calc's local
    receive_pc,          \* the receive_calc agent thread
    result,              \* receive_calc's argument
    nb_recv,             \* outcome of the notebook's last get_result call
    nb_sent,             \* number of send_inputs calls made by notebook cells
    late_acquires,       \* history: acquisitions that succeeded with done set
    late_sends,          \* history: submissions made with done set
    overtaken,           \* history: a result arrived while a request sent
                         \*          earlier was still in flight
    arrival_log,         \* history: molecules in the order their results arrived
                         \*          on the default topic
    last_get,            \* history: outcome of the agent's last get_result call
    start_training,      \* BatchedThinker: the signal that starts a retraining cycle
    retrain_pc,          \* BatchedThinker: the event-responding agent thread
    cell_pc,             \* batch workflow: position of the model-in-the-loop cell
    sim_futures,         \* batch workflow: simulation futures still to be handled
    already_ran,         \* batch workflow: molecules handled or picked for a batch
    train_data,          \* batch workflow: molecules of the stored successes
    new_results,         \* batch workflow: successes of the current batch
    predictions,         \* batch workflow: the candidates, best predicted first
    dropped,             \* history: molecules whose simulation failed in a batch
    ml_tasks             \* batch workflow: train_model, run_model and
                         \*                 combine_inferences tasks of the round

vars == << allocations, availability, done, priority_list, priority_list_lock,
           database, simulation_results, rec_progbar, sent_progbar, requests,
           results, main_pc, submit_pc, next_mol, receive_pc, result,
           nb_recv, nb_sent, late_acquires, late_sends, overtaken,
           arrival_log, last_get, start_training, retrain_pc, cell_pc,
           sim_futures, already_ran, train_data, new_results, predictions,
           dropped, ml_tasks >>

rec_vars == << allocations, availability >>
policy_vars == << priority_list, priority_list_lock, database,
                  simulation_results, rec_progbar, sent_progbar >>
queue_vars == << requests, results >>
notebook_vars == << nb_recv, nb_sent >>
history_vars == << late_acquires, late_sends, overtaken, arrival_log, last_get >>
batched_vars == << start_training, retrain_pc >>
parsl_vars == << cell_pc, sim_futures, already_ran, train_data, new_results,
                 predictions, dropped, ml_tasks >>
colmena_vars == << rec_vars, done, policy_vars, queue_vars, main_pc, submit_pc,
                   next_mol, receive_pc, result, notebook_vars, history_vars,
                   batched_vars >>

\* Bounds of the batch workflow (scaled-down settings of its notebook).
InitialCount == 1
NChunks == 2

\* the machine-learning tasks of a round, none of them submitted
NoTasks ==
    [train |-> "none", run_model |-> [c \in 1 .. NChunks |-> "none"],
     combine |-> "none"]

\* shuffle(self.priority_list): any order of the distinct molecules
Shuffles == { p \in [1 .. MaxMols -> Mols] : \A i, j \in 1 .. MaxMols : p[i] = p[j] => i = j }

RemoveAt(s, i) == SubSeq(s, 1, i - 1) \o SubSeq(s, i + 1, Len(s))

\* State once the queues, the ResourceCounter and the thinker's attributes exist,
\* before the thinker hands its slots to the 'simulate' pool.
Init ==
    /\ allocations = [p \in Pools |-> IF p = "None" THEN NParallel ELSE 0]
    /\ availability = [p \in Pools |-> IF p = "None" THEN NParallel ELSE 0]
    /\ done = FALSE
    /\ priority_list \in Shuffles
    /\ priority_list_lock = "free"
    /\ database = {}
    /\ simulation_results = << >>
    /\ rec_progbar = 0
    /\ sent_progbar = 0
    /\ requests = << >>
    /\ results = [t \in Topics |-> << >>]
    /\ main_pc = "reallocate"
    /\ submit_pc = "idle"
    /\ next_mol = DemoMol
    /\ receive_pc = "idle"
    /\ result = NoResult
    /\ nb_recv = [topic |-> "none", outcome |-> "none", result |-> NoResult]
    /\ nb_sent = 0
    /\ late_acquires = 0
    /\ late_sends = 0
    /\ overtaken = FALSE
    /\ arrival_log = << >>
    /\ last_get = "none"
    /\ start_training = FALSE
    /\ retrain_pc = "idle"
    /\ cell_pc = "start"
    /\ sim_futures = << >>
    /\ already_ran = {}
    /\ train_data = << >>
    /\ new_results = << >>
    /\ predictions = << >>
    /\ dropped = {}
    /\ ml_tasks = NoTasks

----------------------------------------------------------------------------
\* ResourceCounter

\* (mutant) acquire that returns without taking the slots
acquire_no_take(avail, pool, n) == avail

\* Semaphore values after acquire(pool, n) succeeded
acquire(avail, pool, n) == [avail EXCEPT ![pool] = @ - n]

\* (mutant) acquire that does not wait for a slot
can_acquire_unchecked(avail, pool, n) == TRUE

\* acquire can succeed: the pool's semaphore holds n slots
can_acquire(avail, pool, n) == avail[pool] >= n

\* (mutant) release that gives back one slot too many
release_one_more(avail, pool, n) == [avail EXCEPT ![pool] = @ + n + 1]

\* Semaphore values after release(pool, n): the slots go back to the same pool
release(avail, pool, n) == [avail EXCEPT ![pool] = @ + n]

\* (mutant) reallocate that moves one slot more than asked
reallocate_overdraw(alloc, from, to, n) ==
    [alloc EXCEPT ![from] = @ - n - 1, ![to] = @ + n + 1]

\* (mutant) reallocate that does not take the slots out of the source pool
reallocate_no_debit(alloc, from, to, n) == [alloc EXCEPT ![to] = @ + n]

\* Allocation counts after reallocate(from, to, n)
reallocate(alloc, from, to, n) == [alloc EXCEPT ![from] = @ - n, ![to] = @ + n]

\* self.rec.reallocate(None, 'simulate', n_parallel) in RandomThinker.__init__
init_reallocate ==
    /\ main_pc = "reallocate"
    /\ can_acquire(availability, "None", NParallel)
    /\ allocations' = reallocate(allocations, "None", "simulate", NParallel)
    /\ availability' = release(acquire(availability, "None", NParallel), "simulate", NParallel)
    /\ main_pc' = "run"
    /\ UNCHANGED << parsl_vars, done, policy_vars, queue_vars, submit_pc, next_mol,
                    receive_pc, result, notebook_vars, batched_vars, history_vars >>

----------------------------------------------------------------------------
\* BaseThinker.run

\* random_thinker.run(): start one thread per agent
run_start ==
    /\ main_pc = "run"
    /\ main_pc' = "join"
    /\ submit_pc' = "check"
    /\ receive_pc' = "check"
    /\ UNCHANGED << parsl_vars, rec_vars, done, policy_vars, queue_vars, next_mol, result,
                    notebook_vars, batched_vars, history_vars >>

\* every agent thread has exited
agents_exited == submit_pc = "exited" /\ receive_pc = "exited"

\* random_thinker.run(): returns once the agent threads have exited
run_join ==
    /\ main_pc = "join"
    /\ agents_exited
    /\ main_pc' = "returned"
    /\ UNCHANGED << parsl_vars, rec_vars, done, policy_vars, queue_vars, submit_pc, next_mol,
                    receive_pc, result, notebook_vars, batched_vars, history_vars >>

----------------------------------------------------------------------------
\* submit_calc: the task_submitter agent

\* (mutant) agent loop that does not look at done
keep_running_always(d) == TRUE

\* while not self.done.is_set()
keep_running(d) == ~ d

\* while not self.done.is_set(): the agent exits once done is set
submit_check ==
    /\ submit_pc = "check"
    /\ submit_pc' = IF keep_running(done) THEN "acquire" ELSE "exited"
    /\ UNCHANGED << parsl_vars, rec_vars, done, policy_vars, queue_vars, main_pc, next_mol,
                    receive_pc, result, notebook_vars, batched_vars, history_vars >>

\* (mutant) acquire that goes on waiting when just enough slots are free
submit_acquire_strict ==
    /\ submit_pc = "acquire"
    /\ availability["simulate"] > N_SLOTS
    /\ availability' = acquire(availability, "simulate", N_SLOTS)
    /\ submit_pc' = "lock"
    /\ late_acquires' = IF done THEN late_acquires + 1 ELSE late_acquires
    /\ UNCHANGED << parsl_vars, allocations, done, policy_vars, queue_vars, main_pc, next_mol,
                    receive_pc, result, notebook_vars, batched_vars, late_sends, overtaken,
                    arrival_log, last_get >>

\* self.rec.acquire('simulate', 1, cancel_if=self.done) returns True
submit_acquire ==
    /\ submit_pc = "acquire"
    /\ can_acquire(availability, "simulate", N_SLOTS)
    /\ availability' = acquire(availability, "simulate", N_SLOTS)
    /\ submit_pc' = "lock"
    /\ late_acquires' = IF done THEN late_acquires + 1 ELSE late_acquires
    /\ UNCHANGED << parsl_vars, allocations, done, policy_vars, queue_vars, main_pc, next_mol,
                    receive_pc, result, notebook_vars, batched_vars, late_sends, overtaken,
                    arrival_log, last_get >>

\* the wait in acquire is given up: cancel_if (done) is set
acquire_cancelled == done

\* self.rec.acquire('simulate', 1, cancel_if=self.done) returns False
submit_acquire_cancel ==
    /\ submit_pc = "acquire"
    /\ acquire_cancelled
    /\ submit_pc' = "check"
    /\ UNCHANGED << parsl_vars, rec_vars, done, policy_vars, queue_vars, main_pc, next_mol,
                    receive_pc, result, notebook_vars, batched_vars, history_vars >>

\* (mutant) submit_calc that pops without taking priority_list_lock
submit_lock_skipped ==
    /\ submit_pc = "lock"
    /\ submit_pc' = "pop"
    /\ UNCHANGED << parsl_vars, rec_vars, done, policy_vars, queue_vars, main_pc, next_mol,
                    receive_pc, result, notebook_vars, batched_vars, history_vars >>

\* with self.priority_list_lock: (entry)
submit_lock ==
    /\ submit_pc = "lock"
    /\ priority_list_lock = "free"
    /\ priority_list_lock' = "submit_calc"
    /\ submit_pc' = "pop"
    /\ UNCHANGED << parsl_vars, rec_vars, done, priority_list, database, simulation_results,
                    rec_progbar, sent_progbar, queue_vars, main_pc, next_mol,
                    receive_pc, result, notebook_vars, batched_vars, history_vars >>

\* (mutant) submit_calc that reads the last candidate and leaves it on the list
submit_pop_no_remove ==
    /\ submit_pc = "pop"
    /\ priority_list_lock' = "free"
    /\ IF priority_list = << >>
       THEN /\ submit_pc' = "exited"
            /\ done' = TRUE
            /\ UNCHANGED << priority_list, next_mol >>
       ELSE /\ next_mol' = priority_list[Len(priority_list)]
            /\ submit_pc' = "send"
            /\ UNCHANGED << priority_list, done >>
    /\ UNCHANGED << parsl_vars, rec_vars, database, simulation_results, rec_progbar,
                    sent_progbar, queue_vars, main_pc, receive_pc, result,
                    notebook_vars, batched_vars, history_vars >>

\* (mutant) submit_calc that goes on holding priority_list_lock
submit_pop_keeps_lock ==
    /\ submit_pc = "pop"
    /\ IF priority_list = << >>
       THEN /\ submit_pc' = "exited"
            /\ done' = TRUE
            /\ UNCHANGED << priority_list, next_mol >>
       ELSE /\ next_mol' = priority_list[Len(priority_list)]
            /\ priority_list' = SubSeq(priority_list, 1, Len(priority_list) - 1)
            /\ submit_pc' = "send"
            /\ UNCHANGED done
    /\ UNCHANGED << parsl_vars, rec_vars, priority_list_lock, database, simulation_results,
                    rec_progbar, sent_progbar, queue_vars, main_pc, receive_pc,
                    result, notebook_vars, batched_vars, history_vars >>

\* next_mol = self.priority_list.pop(), then the lock is left. pop() of an
\* empty list raises IndexError: the agent thread ends and, being an agent
\* of the thinker, sets done on its way out.
submit_pop ==
    /\ submit_pc = "pop"
    /\ priority_list_lock' = "free"
    /\ IF priority_list = << >>
       THEN /\ submit_pc' = "exited"
            /\ done' = TRUE
            /\ UNCHANGED << priority_list, next_mol >>
       ELSE /\ next_mol' = priority_list[Len(priority_list)]
            /\ priority_list' = SubSeq(priority_list, 1, Len(priority_list) - 1)
            /\ submit_pc' = "send"
            /\ UNCHANGED done
    /\ UNCHANGED << parsl_vars, rec_vars, database, simulation_results, rec_progbar,
                    sent_progbar, queue_vars, main_pc, receive_pc, result,
                    notebook_vars, batched_vars, history_vars >>

\* queues.send_inputs(args, topic=topic): the request enters the request pipe
send_inputs(reqs, args, topic) == Append(reqs, [args |-> args, topic |-> topic])

\* self.queues.send_inputs(next_mol, method='compute_vertical');
\* self.rec_progbar.update(1)
submit_send ==
    /\ submit_pc = "send"
    /\ requests' = send_inputs(requests, next_mol, "default")
    /\ rec_progbar' = rec_progbar + 1
    /\ submit_pc' = "check"
    /\ late_sends' = IF done THEN late_sends + 1 ELSE late_sends
    /\ UNCHANGED << parsl_vars, rec_vars, done, priority_list, priority_list_lock, database,
                    simulation_results, sent_progbar, results, main_pc, next_mol,
                    receive_pc, result, notebook_vars, batched_vars, late_acquires,
                    overtaken, arrival_log, last_get >>

----------------------------------------------------------------------------
\* receive_calc: the result_processor agent (topic 'default')

\* while not self.done.is_set(): the agent exits once done is set
receive_check ==
    /\ receive_pc = "check"
    /\ receive_pc' = IF keep_running(done) THEN "get_result" ELSE "exited"
    /\ UNCHANGED << parsl_vars, rec_vars, done, policy_vars, queue_vars, main_pc, submit_pc,
                    next_mol, result, notebook_vars, batched_vars, history_vars >>

\* queues.get_result(topic=topic) has a result to return
has_result(res, topic) == res[topic] # << >>

\* (mutant) get_result that returns the newest result of the topic
get_result_newest(res, topic) == res[topic][Len(res[topic])]

\* the result queues.get_result(topic=topic) returns
get_result(res, topic) == Head(res[topic])

\* (mutant) get_result that leaves the result in the pipe
after_get_result_keep(res, topic) == res

\* (mutant) get_result that empties the pipes of the other topics
after_get_result_flush(res, topic) ==
    [t \in Topics |-> IF t = topic THEN Tail(res[t]) ELSE << >>]

\* the result pipes once get_result(topic=topic) returned
after_get_result(res, topic) == [res EXCEPT ![topic] = Tail(@)]

\* result = self.queues.get_result(timeout=..., topic='default') returns a result
receive_get ==
    /\ receive_pc = "get_result"
    /\ has_result(results, "default")
    /\ result' = get_result(results, "default")
    /\ results' = after_get_result(results, "default")
    /\ receive_pc' = "release"
    /\ last_get' = "result"
    /\ UNCHANGED << parsl_vars, rec_vars, done, policy_vars, requests, main_pc, submit_pc,
                    next_mol, notebook_vars, batched_vars, late_acquires, late_sends, overtaken,
                    arrival_log >>

\* (mutant) a timeout of get_result that ends the agent as a fault
receive_timeout_fault ==
    /\ receive_pc = "get_result"
    /\ ~ has_result(results, "default")
    /\ receive_pc' = "exited"
    /\ done' = TRUE
    /\ last_get' = "timeout"
    /\ UNCHANGED << parsl_vars, rec_vars, policy_vars, queue_vars, main_pc, submit_pc,
                    next_mol, result, notebook_vars, batched_vars, late_acquires, late_sends,
                    overtaken, arrival_log >>

\* (mutant) get_result that waits for a result without a timeout
receive_waits_forever == FALSE

\* get_result times out with no result on the topic: the agent loops
receive_timeout ==
    /\ receive_pc = "get_result"
    /\ ~ has_result(results, "default")
    /\ receive_pc' = "check"
    /\ last_get' = "timeout"
    /\ UNCHANGED << parsl_vars, rec_vars, done, policy_vars, queue_vars, main_pc, submit_pc,
                    next_mol, result, notebook_vars, batched_vars, late_acquires, late_sends,
                    overtaken, arrival_log >>

\* (mutant) receive_calc whose release hands the slot to the unallocated pool
receive_release_to_unallocated ==
    /\ receive_pc = "release"
    /\ availability' = release(availability, "None", 1)
    /\ receive_pc' = "store"
    /\ UNCHANGED << parsl_vars, allocations, done, policy_vars, queue_vars, main_pc, submit_pc,
                    next_mol, result, notebook_vars, batched_vars, history_vars >>

\* (mutant) receive_calc that stores the result without releasing its slot
receive_release_forgotten ==
    /\ receive_pc = "release"
    /\ receive_pc' = "store"
    /\ UNCHANGED << parsl_vars, rec_vars, done, policy_vars, queue_vars, main_pc, submit_pc,
                    next_mol, result, notebook_vars, batched_vars, history_vars >>

\* self.rec.release('simulate', 1)
receive_release ==
    /\ receive_pc = "release"
    /\ availability' = release(availability, "simulate", 1)
    /\ receive_pc' = "store"
    /\ UNCHANGED << parsl_vars, allocations, done, policy_vars, queue_vars, main_pc, submit_pc,
                    next_mol, result, notebook_vars, batched_vars, history_vars >>

\* (mutant) receive_calc that stores the result without testing success
receive_store_any ==
    /\ receive_pc = "store"
    /\ database' = database \cup {result.args}
    /\ sent_progbar' = sent_progbar + 1
    /\ receive_pc' = "stop"
    /\ UNCHANGED << parsl_vars, rec_vars, done, priority_list, priority_list_lock,
                    simulation_results, rec_progbar, queue_vars, main_pc, submit_pc,
                    next_mol, result, notebook_vars, batched_vars, history_vars >>

\* if result.success: self.database[result.args[0]] = result.value;
\* self.sent_progbar.update(1)   else: self.logger.warning(...)
receive_store ==
    /\ receive_pc = "store"
    /\ IF result.success
       THEN /\ database' = database \cup {result.args}
            /\ sent_progbar' = sent_progbar + 1
            /\ receive_pc' = "stop"
       ELSE /\ receive_pc' = "append"
            /\ UNCHANGED << database, sent_progbar >>
    /\ UNCHANGED << parsl_vars, rec_vars, done, priority_list, priority_list_lock,
                    simulation_results, rec_progbar, queue_vars, main_pc, submit_pc,
                    next_mol, result, notebook_vars, batched_vars, history_vars >>

\* len(self.database) >= self.n_to_evaluate
enough_evaluated(db) == Cardinality(db) >= NToEvaluate

\* if len(self.database) >= self.n_to_evaluate: self.done.set()
receive_stop ==
    /\ receive_pc = "stop"
    /\ done' = (done \/ enough_evaluated(database))
    /\ receive_pc' = "append"
    /\ UNCHANGED << parsl_vars, rec_vars, policy_vars, queue_vars, main_pc, submit_pc, next_mol,
                    result, notebook_vars, batched_vars, history_vars >>

\* self.simulation_results.append(result)
receive_append ==
    /\ receive_pc = "append"
    /\ simulation_results' = Append(simulation_results, result)
    /\ receive_pc' = "check"
    /\ UNCHANGED << parsl_vars, rec_vars, done, priority_list, priority_list_lock, database,
                    rec_progbar, sent_progbar, queue_vars, main_pc, submit_pc,
                    next_mol, result, notebook_vars, batched_vars, history_vars >>

----------------------------------------------------------------------------
\* The task server (ParslTaskServer over the worker pool)

\* (mutant) task server that answers every task on the default topic
result_topic_default(task) == "default"

\* the topic whose result pipe receives the result of a task
result_topic(task) == task.topic

\* A task in flight completes, with success or failure; tasks complete in any
\* order. Its result enters the result pipe of the topic it was sent with.
task_server ==
    \E i \in 1 .. Len(requests), ok \in BOOLEAN :
        /\ results' = [results EXCEPT ![result_topic(requests[i])] =
                          Append(@, [args |-> requests[i].args,
                                     topic |-> requests[i].topic,
                                     success |-> ok])]
        /\ requests' = RemoveAt(requests, i)
        /\ arrival_log' = IF result_topic(requests[i]) = "default"
                          THEN Append(arrival_log, requests[i].args)
                          ELSE arrival_log
        /\ overtaken' = (overtaken \/ i > 1)
        /\ UNCHANGED << parsl_vars, rec_vars, done, policy_vars, main_pc, submit_pc, next_mol,
                        receive_pc, result, notebook_vars, batched_vars, late_acquires,
                        late_sends, last_get >>

----------------------------------------------------------------------------
\* The notebook cells that use the queues by hand

\* queues.send_inputs('C', method='compute_vertical', topic=...)
notebook_send ==
    \E topic \in Topics :
        /\ nb_sent < MaxNotebookSends
        /\ nb_sent' = nb_sent + 1
        /\ requests' = send_inputs(requests, DemoMol, topic)
        /\ UNCHANGED << parsl_vars, rec_vars, done, policy_vars, results, main_pc, submit_pc,
                        next_mol, receive_pc, result, nb_recv, history_vars, batched_vars >>

\* result = queues.get_result(topic=...) returns a result
notebook_get ==
    \E topic \in Topics :
        /\ has_result(results, topic)
        /\ nb_recv' = [topic |-> topic, outcome |-> "result",
                       result |-> get_result(results, topic)]
        /\ results' = after_get_result(results, topic)
        /\ UNCHANGED << parsl_vars, rec_vars, done, policy_vars, requests, main_pc, submit_pc,
                        next_mol, receive_pc, result, nb_sent, history_vars,
                        batched_vars >>

\* queues.get_result(topic=..., timeout=15) times out: 'Timed out, as expected';
\* the variable result keeps its value
notebook_timeout ==
    \E topic \in Topics :
        /\ ~ has_result(results, topic)
        /\ nb_recv' = [nb_recv EXCEPT !.topic = topic, !.outcome = "timeout"]
        /\ UNCHANGED << parsl_vars, rec_vars, done, policy_vars, queue_vars, main_pc, submit_pc,
                        next_mol, receive_pc, result, nb_sent, history_vars,
                        batched_vars >>

----------------------------------------------------------------------------
\* Specifications

SubmitterNext ==
    \/ submit_check
    \/ submit_acquire
    \/ submit_acquire_cancel
    \/ submit_lock
    \/ submit_pop
    \/ submit_send

ProcessorNext ==
    \/ receive_check
    \/ receive_get
    \/ receive_timeout
    \/ receive_release
    \/ receive_store
    \/ receive_stop
    \/ receive_append

MainNext ==
    \/ init_reallocate
    \/ run_start
    \/ run_join

Next ==
    \/ MainNext
    \/ SubmitterNext
    \/ ProcessorNext
    \/ task_server

\* The run of RandomThinker
Spec == Init /\ [][Next]_vars

\* The run of RandomThinker with every thread scheduled and the task server
\* completing the tasks it holds
FairSpec ==
    /\ Spec
    /\ WF_vars(MainNext)
    /\ WF_vars(SubmitterNext)
    /\ WF_vars(ProcessorNext)
    /\ WF_vars(task_server)

NextQueues ==
    \/ notebook_send
    \/ notebook_get
    \/ notebook_timeout
    \/ task_server

\* The notebook cells driving the queues by hand
SpecQueues == Init /\ [][NextQueues]_vars

----------------------------------------------------------------------------
\* BatchedThinker (thinkers.py): the overlapped policy. Its agents follow the
\* description of the policy: a submitting agent and a result-processing
\* agent for simulations, on the 'simulate' topic, and an event-responding
\* agent that runs the retraining cycle when start_training is set.

\* batch_size: successes between two retraining cycles (scaled down)
BatchSize == 1

\* slots the retraining cycle hands to training; the others go to inference
NTrainSlots == 1

\* input of the training and inference tasks (the models are opaque)
ModelArgs == 0

\* the orders a re-sort by predicted score can give a list
Sorts(list) ==
    { [i \in 1 .. Len(list) |-> list[f[i]]] :
        f \in { g \in [1 .. Len(list) -> 1 .. Len(list)] :
                  \A i, j \in 1 .. Len(list) : g[i] = g[j] => i = j } }

\* run(): start one thread per agent of the BatchedThinker
batched_run_start ==
    /\ main_pc = "run"
    /\ main_pc' = "join"
    /\ submit_pc' = "check"
    /\ receive_pc' = "check"
    /\ retrain_pc' = "check"
    /\ UNCHANGED << parsl_vars, rec_vars, done, policy_vars, queue_vars, next_mol, result,
                    notebook_vars, history_vars, start_training >>

\* every agent thread of the BatchedThinker has exited
batched_agents_exited == agents_exited /\ retrain_pc = "exited"

\* run() returns once the agent threads have exited
batched_run_join ==
    /\ main_pc = "join"
    /\ batched_agents_exited
    /\ main_pc' = "returned"
    /\ UNCHANGED << parsl_vars, rec_vars, done, policy_vars, queue_vars, submit_pc, next_mol,
                    receive_pc, result, notebook_vars, history_vars, batched_vars >>

\* the submitting agent sends the simulation on the 'simulate' topic
batched_submit_send ==
    /\ submit_pc = "send"
    /\ requests' = send_inputs(requests, next_mol, "simulate")
    /\ submit_pc' = "check"
    /\ UNCHANGED << parsl_vars, rec_vars, done, policy_vars, results, main_pc, next_mol,
                    receive_pc, result, notebook_vars, history_vars, batched_vars >>

\* receive('simulate', timeout) returns a result
batched_receive_get ==
    /\ receive_pc = "get_result"
    /\ has_result(results, "simulate")
    /\ result' = get_result(results, "simulate")
    /\ results' = after_get_result(results, "simulate")
    /\ receive_pc' = "release"
    /\ UNCHANGED << parsl_vars, rec_vars, done, policy_vars, requests, main_pc, submit_pc,
                    next_mol, notebook_vars, history_vars, batched_vars >>

\* receive('simulate', timeout) times out: the agent loops
batched_receive_timeout ==
    /\ receive_pc = "get_result"
    /\ ~ has_result(results, "simulate")
    /\ receive_pc' = "check"
    /\ UNCHANGED << parsl_vars, rec_vars, done, policy_vars, queue_vars, main_pc, submit_pc,
                    next_mol, result, notebook_vars, history_vars, batched_vars >>

\* the result-processing agent takes the policy-state lock
batched_receive_lock ==
    /\ receive_pc = "store"
    /\ priority_list_lock = "free"
    /\ priority_list_lock' = "receive_calc"
    /\ receive_pc' = "record"
    /\ UNCHANGED << parsl_vars, rec_vars, done, priority_list, database, simulation_results,
                    rec_progbar, sent_progbar, queue_vars, main_pc, submit_pc,
                    next_mol, result, notebook_vars, history_vars, batched_vars >>

\* enough simulation results have accumulated for a retraining cycle
batch_complete(db) == db # {} /\ Cardinality(db) % BatchSize = 0

\* the result-processing agent stores a success in the database, sets
\* start_training when a batch is complete, and leaves the lock
batched_receive_record ==
    /\ receive_pc = "record"
    /\ database' = IF result.success THEN database \cup {result.args} ELSE database
    /\ start_training' = (start_training \/ (result.success /\ batch_complete(database')))
    /\ priority_list_lock' = "free"
    /\ receive_pc' = "stop"
    /\ UNCHANGED << parsl_vars, rec_vars, done, priority_list, simulation_results,
                    rec_progbar, sent_progbar, queue_vars, main_pc, submit_pc,
                    next_mol, result, notebook_vars, history_vars, retrain_pc >>

\* the result-processing agent evaluates the stopping condition
batched_receive_stop ==
    /\ receive_pc = "stop"
    /\ done' = (done \/ enough_evaluated(database))
    /\ receive_pc' = "check"
    /\ UNCHANGED << parsl_vars, rec_vars, policy_vars, queue_vars, main_pc, submit_pc, next_mol,
                    result, notebook_vars, history_vars, batched_vars >>

\* the event-responding agent loops until the termination signal is set
retrain_check ==
    /\ retrain_pc = "check"
    /\ retrain_pc' = IF keep_running(done) THEN "wait" ELSE "exited"
    /\ UNCHANGED << parsl_vars, rec_vars, done, policy_vars, queue_vars, main_pc, submit_pc,
                    next_mol, receive_pc, result, notebook_vars, history_vars,
                    start_training >>

\* the bounded wait on start_training: the cycle starts when it is set
retrain_wait ==
    /\ retrain_pc = "wait"
    /\ retrain_pc' = IF start_training THEN "to_train" ELSE "check"
    /\ UNCHANGED << parsl_vars, rec_vars, done, policy_vars, queue_vars, main_pc, submit_pc,
                    next_mol, receive_pc, result, notebook_vars, history_vars,
                    start_training >>

\* slots the retraining cycle hands to inference
NInferSlots == NParallel - NTrainSlots

\* reallocate('simulate', 'train', NTrainSlots)
retrain_to_train ==
    /\ retrain_pc = "to_train"
    /\ can_acquire(availability, "simulate", NTrainSlots)
    /\ allocations' = reallocate(allocations, "simulate", "train", NTrainSlots)
    /\ availability' = release(acquire(availability, "simulate", NTrainSlots),
                               "train", NTrainSlots)
    /\ retrain_pc' = "to_infer"
    /\ UNCHANGED << parsl_vars, done, policy_vars, queue_vars, main_pc, submit_pc, next_mol,
                    receive_pc, result, notebook_vars, history_vars,
                    start_training >>

\* reallocate('simulate', 'infer', NInferSlots)
retrain_to_infer ==
    /\ retrain_pc = "to_infer"
    /\ can_acquire(availability, "simulate", NInferSlots)
    /\ allocations' = reallocate(allocations, "simulate", "infer", NInferSlots)
    /\ availability' = release(acquire(availability, "simulate", NInferSlots),
                               "infer", NInferSlots)
    /\ retrain_pc' = "send_train"
    /\ UNCHANGED << parsl_vars, done, policy_vars, queue_vars, main_pc, submit_pc, next_mol,
                    receive_pc, result, notebook_vars, history_vars,
                    start_training >>

\* the wait for the simulation slots is given up once the termination signal
\* is set: the agent goes back to its loop
retrain_cancel ==
    /\ retrain_pc \in {"to_train", "to_infer"}
    /\ acquire_cancelled
    /\ retrain_pc' = "check"
    /\ UNCHANGED << parsl_vars, rec_vars, done, policy_vars, queue_vars, main_pc, submit_pc,
                    next_mol, receive_pc, result, notebook_vars, history_vars,
                    start_training >>

\* (mutant) a cycle that holds the policy-state lock from the training on
retrain_send_train_locked ==
    /\ retrain_pc = "send_train"
    /\ priority_list_lock = "free"
    /\ priority_list_lock' = "retrain"
    /\ requests' = send_inputs(requests, ModelArgs, "train")
    /\ retrain_pc' = "get_train"
    /\ UNCHANGED << parsl_vars, rec_vars, done, priority_list, database, simulation_results,
                    rec_progbar, sent_progbar, results, main_pc, submit_pc,
                    next_mol, receive_pc, result, notebook_vars, history_vars,
                    start_training >>

\* the one training task of the cycle is submitted
retrain_send_train ==
    /\ retrain_pc = "send_train"
    /\ requests' = send_inputs(requests, ModelArgs, "train")
    /\ retrain_pc' = "get_train"
    /\ UNCHANGED << parsl_vars, rec_vars, done, policy_vars, results, main_pc, submit_pc,
                    next_mol, receive_pc, result, notebook_vars, history_vars,
                    start_training >>

\* (mutant) a cycle that goes on to inference without the training result
retrain_get_train_nowait ==
    /\ retrain_pc = "get_train"
    /\ retrain_pc' = "send_infer"
    /\ UNCHANGED << parsl_vars, rec_vars, done, policy_vars, queue_vars, main_pc, submit_pc,
                    next_mol, receive_pc, result, notebook_vars, history_vars,
                    start_training >>

\* the agent waits inline for the result of the training task
retrain_get_train ==
    /\ retrain_pc = "get_train"
    /\ has_result(results, "train")
    /\ results' = after_get_result(results, "train")
    /\ retrain_pc' = "send_infer"
    /\ UNCHANGED << parsl_vars, rec_vars, done, policy_vars, requests, main_pc, submit_pc,
                    next_mol, receive_pc, result, notebook_vars, history_vars,
                    start_training >>

\* inference over the candidate space is submitted
retrain_send_infer ==
    /\ retrain_pc = "send_infer"
    /\ requests' = send_inputs(requests, ModelArgs, "infer")
    /\ retrain_pc' = "get_infer"
    /\ UNCHANGED << parsl_vars, rec_vars, done, policy_vars, results, main_pc, submit_pc,
                    next_mol, receive_pc, result, notebook_vars, history_vars,
                    start_training >>

\* the agent waits inline for the result of the inference
retrain_get_infer ==
    /\ retrain_pc = "get_infer"
    /\ has_result(results, "infer")
    /\ results' = after_get_result(results, "infer")
    /\ retrain_pc' = "lock"
    /\ UNCHANGED << parsl_vars, rec_vars, done, policy_vars, requests, main_pc, submit_pc,
                    next_mol, receive_pc, result, notebook_vars, history_vars,
                    start_training >>

\* the agent takes the policy-state lock to re-sort the priority list
retrain_lock ==
    /\ retrain_pc = "lock"
    /\ priority_list_lock = "free"
    /\ priority_list_lock' = "retrain"
    /\ retrain_pc' = "sort"
    /\ UNCHANGED << parsl_vars, rec_vars, done, priority_list, database, simulation_results,
                    rec_progbar, sent_progbar, queue_vars, main_pc, submit_pc,
                    next_mol, receive_pc, result, notebook_vars, history_vars,
                    start_training >>

\* the priority list is re-sorted by predicted score, and the lock is left
retrain_sort ==
    /\ retrain_pc = "sort"
    /\ priority_list' \in Sorts(priority_list)
    /\ priority_list_lock' = "free"
    /\ retrain_pc' = "back_train"
    /\ UNCHANGED << parsl_vars, rec_vars, done, database, simulation_results, rec_progbar,
                    sent_progbar, queue_vars, main_pc, submit_pc, next_mol,
                    receive_pc, result, notebook_vars, history_vars,
                    start_training >>

\* reallocate('train', 'simulate', NTrainSlots)
retrain_back_train ==
    /\ retrain_pc = "back_train"
    /\ can_acquire(availability, "train", NTrainSlots)
    /\ allocations' = reallocate(allocations, "train", "simulate", NTrainSlots)
    /\ availability' = release(acquire(availability, "train", NTrainSlots),
                               "simulate", NTrainSlots)
    /\ retrain_pc' = "back_infer"
    /\ UNCHANGED << parsl_vars, done, policy_vars, queue_vars, main_pc, submit_pc, next_mol,
                    receive_pc, result, notebook_vars, history_vars,
                    start_training >>

\* reallocate('infer', 'simulate', NInferSlots)
retrain_back_infer ==
    /\ retrain_pc = "back_infer"
    /\ can_acquire(availability, "infer", NInferSlots)
    /\ allocations' = reallocate(allocations, "infer", "simulate", NInferSlots)
    /\ availability' = release(acquire(availability, "infer", NInferSlots),
                               "simulate", NInferSlots)
    /\ retrain_pc' = "clear"
    /\ UNCHANGED << parsl_vars, done, policy_vars, queue_vars, main_pc, submit_pc, next_mol,
                    receive_pc, result, notebook_vars, history_vars,
                    start_training >>

\* the signal is cleared and the agent resumes waiting
retrain_clear ==
    /\ retrain_pc = "clear"
    /\ start_training' = FALSE
    /\ retrain_pc' = "check"
    /\ UNCHANGED << parsl_vars, rec_vars, done, policy_vars, queue_vars, main_pc, submit_pc,
                    next_mol, receive_pc, result, notebook_vars, history_vars >>

BatchedSubmitterNext ==
    \/ submit_check
    \/ submit_acquire
    \/ submit_acquire_cancel
    \/ submit_lock
    \/ submit_pop
    \/ batched_submit_send

BatchedProcessorNext ==
    \/ receive_check
    \/ batched_receive_get
    \/ batched_receive_timeout
    \/ receive_release
    \/ batched_receive_lock
    \/ batched_receive_record
    \/ batched_receive_stop

RetrainNext ==
    \/ retrain_check
    \/ retrain_wait
    \/ retrain_to_train
    \/ retrain_to_infer
    \/ retrain_cancel
    \/ retrain_send_train
    \/ retrain_get_train
    \/ retrain_send_infer
    \/ retrain_get_infer
    \/ retrain_lock
    \/ retrain_sort
    \/ retrain_back_train
    \/ retrain_back_infer
    \/ retrain_clear

BatchedMainNext ==
    \/ init_reallocate
    \/ batched_run_start
    \/ batched_run_join

NextBatched ==
    \/ BatchedMainNext
    \/ BatchedSubmitterNext
    \/ BatchedProcessorNext
    \/ RetrainNext
    \/ task_server

\* The run of BatchedThinker
SpecBatched == Init /\ [][NextBatched]_vars

----------------------------------------------------------------------------
\* The batch workflow with Parsl (0_molecular-design-with-parsl.ipynb, the
\* model-in-the-loop cell). A future of a simulation is running, then ok or
\* failed. A machine-learning task is pending until Parsl launches it, which
\* it does once the futures the task was given have completed; the training
\* and inference functions themselves are taken to succeed.

\* the sequences of k distinct molecules of a set
Picks(from, k) ==
    { q \in [1 .. k -> from] : \A i, j \in 1 .. k : q[i] = q[j] => i = j }

\* compute_vertical_app(mol): a new, running future
new_future(mol) == [smiles |-> mol, state |-> "running"]

\* init_mols = search_space.sample(initial_count);
\* sim_futures = [compute_vertical_app(mol) for mol in init_mols]
cell_submit_initial ==
    /\ cell_pc = "start"
    /\ \E init_mols \in Picks(Mols, InitialCount) :
          sim_futures' = [i \in 1 .. InitialCount |-> new_future(init_mols[i])]
    /\ cell_pc' = "initial"
    /\ UNCHANGED << colmena_vars, dropped, predictions, already_ran, train_data, new_results, ml_tasks >>

\* futures that next(as_completed(...)) can return
completed(futures) == { i \in 1 .. Len(futures) : futures[i].state # "running" }

\* the futures of a list that are in a state
in_state(futures, st) ==
    Cardinality({ i \in 1 .. Len(futures) : futures[i].state = st })

\* (mutant) initial loop that submits nothing in place of a failed simulation
cell_initial_next_no_replacement ==
    /\ cell_pc = "initial"
    /\ \E i \in completed(sim_futures) :
          /\ already_ran' = already_ran \cup {sim_futures[i].smiles}
          /\ IF sim_futures[i].state = "failed"
             THEN /\ sim_futures' = RemoveAt(sim_futures, i)
                  /\ UNCHANGED train_data
             ELSE /\ sim_futures' = RemoveAt(sim_futures, i)
                  /\ train_data' = Append(train_data, sim_futures[i].smiles)
    /\ UNCHANGED << colmena_vars, dropped, predictions, cell_pc, new_results, ml_tasks >>

\* one pass of the initial loop: take the next completed future off the list,
\* note its molecule in already_ran, and either submit a simulation of a
\* molecule sampled from the whole search space in its place (it failed) or
\* store its result in train_data
cell_initial_next ==
    /\ cell_pc = "initial"
    /\ \E i \in completed(sim_futures) :
          /\ already_ran' = already_ran \cup {sim_futures[i].smiles}
          /\ IF sim_futures[i].state = "failed"
             THEN /\ \E smiles \in Mols :
                        sim_futures' = Append(RemoveAt(sim_futures, i),
                                              new_future(smiles))
                  /\ UNCHANGED train_data
             ELSE /\ sim_futures' = RemoveAt(sim_futures, i)
                  /\ train_data' = Append(train_data, sim_futures[i].smiles)
    /\ UNCHANGED << colmena_vars, dropped, predictions, cell_pc, new_results, ml_tasks >>

\* while len(sim_futures) > 0: the initial loop ends with the list empty
cell_initial_exit ==
    /\ cell_pc = "initial"
    /\ sim_futures = << >>
    /\ cell_pc' = "loop"
    /\ UNCHANGED << colmena_vars, dropped, predictions, sim_futures, already_ran, train_data,
                    new_results, ml_tasks >>

\* while len(train_data) < search_count: train_future = train_model(train_data)
cell_train ==
    /\ cell_pc = "loop"
    /\ IF Len(train_data) < NToEvaluate
       THEN /\ ml_tasks' = [NoTasks EXCEPT !.train = "running"]
            /\ cell_pc' = "infer"
       ELSE /\ cell_pc' = "finished"
            /\ UNCHANGED ml_tasks
    /\ UNCHANGED << colmena_vars, dropped, predictions, sim_futures, already_ran, train_data,
                    new_results >>

\* inference_futures = [run_model(train_future, chunk) for chunk in ...]
cell_infer ==
    /\ cell_pc = "infer"
    /\ ml_tasks' = [ml_tasks EXCEPT !.run_model = [c \in 1 .. NChunks |-> "pending"]]
    /\ cell_pc' = "combine"
    /\ UNCHANGED << colmena_vars, dropped, predictions, sim_futures, already_ran, train_data,
                    new_results >>

\* combine_inferences(inputs=inference_futures)
cell_combine ==
    /\ cell_pc = "combine"
    /\ ml_tasks' = [ml_tasks EXCEPT !.combine = "pending"]
    /\ cell_pc' = "predictions"
    /\ UNCHANGED << colmena_vars, dropped, predictions, sim_futures, already_ran, train_data,
                    new_results >>

\* predictions = combine_inferences(...).result();
\* predictions.sort_values('ie', ascending=False, inplace=True): the
\* candidates of the search space, best predicted first. The scores being the
\* model's, any order can come out.
cell_predictions ==
    /\ cell_pc = "predictions"
    /\ ml_tasks.combine = "done"
    /\ predictions' \in Shuffles
    /\ ml_tasks' = NoTasks
    /\ cell_pc' = "select"
    /\ UNCHANGED << colmena_vars, dropped, sim_futures, already_ran, train_data,
                    new_results >>

\* (mutant) selection that walks the predictions from the worst to the best
select_batch_ascending(ranked, ran) ==
    LET fresh == SelectSeq(ranked, LAMBDA smiles : smiles \notin ran)
    IN IF Len(fresh) <= BatchSize THEN fresh
       ELSE SubSeq(fresh, Len(fresh) - BatchSize + 1, Len(fresh))

\* for smiles in predictions['smiles']: if smiles not in already_ran: take
\* it; if len(sim_futures) >= batch_size: break
select_batch(ranked, ran) ==
    LET fresh == SelectSeq(ranked, LAMBDA smiles : smiles \notin ran)
    IN IF Len(fresh) <= BatchSize THEN fresh ELSE SubSeq(fresh, 1, BatchSize)

\* the molecules selected are submitted and added to already_ran;
\* new_results = []. The predictions are not read again before the next
\* round replaces them, and are dropped here.
cell_select ==
    /\ cell_pc = "select"
    /\ LET batch == select_batch(predictions, already_ran)
       IN /\ sim_futures' = [i \in 1 .. Len(batch) |-> new_future(batch[i])]
          /\ already_ran' = already_ran \cup { batch[i] : i \in 1 .. Len(batch) }
    /\ new_results' = << >>
    /\ predictions' = << >>
    /\ cell_pc' = "batch"
    /\ UNCHANGED << colmena_vars, dropped, train_data, ml_tasks >>

\* (mutant) batch loop that stores the record of every future, failed or not
cell_batch_next_keeps_failure ==
    /\ cell_pc = "batch"
    /\ \E i \in completed(sim_futures) :
          /\ sim_futures' = RemoveAt(sim_futures, i)
          /\ new_results' = Append(new_results, sim_futures[i].smiles)
          /\ dropped' = IF sim_futures[i].state = "ok"
                        THEN dropped
                        ELSE dropped \cup {sim_futures[i].smiles}
    /\ UNCHANGED << colmena_vars, predictions, cell_pc, already_ran, train_data,
                    ml_tasks >>

\* for future in as_completed(sim_futures): a success is added to
\* new_results, a failure is passed over
cell_batch_next ==
    /\ cell_pc = "batch"
    /\ \E i \in completed(sim_futures) :
          /\ sim_futures' = RemoveAt(sim_futures, i)
          /\ new_results' = IF sim_futures[i].state = "ok"
                            THEN Append(new_results, sim_futures[i].smiles)
                            ELSE new_results
          /\ dropped' = IF sim_futures[i].state = "ok"
                        THEN dropped
                        ELSE dropped \cup {sim_futures[i].smiles}
    /\ UNCHANGED << colmena_vars, predictions, cell_pc, already_ran, train_data,
                    ml_tasks >>

\* (mutant) the batch loop left without waiting for the futures still running
cell_batch_end_early ==
    /\ cell_pc = "batch"
    /\ completed(sim_futures) = {}
    /\ train_data' = train_data \o new_results
    /\ cell_pc' = "loop"
    /\ UNCHANGED << colmena_vars, dropped, predictions, sim_futures, already_ran, new_results, ml_tasks >>

\* train_data = pd.concat((train_data, pd.DataFrame(new_results)))
cell_batch_end ==
    /\ cell_pc = "batch"
    /\ sim_futures = << >>
    /\ train_data' = train_data \o new_results
    /\ cell_pc' = "loop"
    /\ UNCHANGED << colmena_vars, dropped, predictions, sim_futures, already_ran, new_results, ml_tasks >>

\* a running simulation completes, with a result or with an exception
parsl_simulation_done ==
    \E i \in 1 .. Len(sim_futures), outcome \in {"ok", "failed"} :
        /\ sim_futures[i].state = "running"
        /\ sim_futures' = [sim_futures EXCEPT ![i].state = outcome]
        /\ UNCHANGED << colmena_vars, dropped, predictions, cell_pc, already_ran, train_data,
                        new_results, ml_tasks >>

\* (mutant) Parsl launching a task without waiting for the futures it was given
dependencies_ignored(tasks, kind) == TRUE

\* the futures passed to a task have completed: train_future for run_model,
\* every inference future for combine_inferences
dependencies_done(tasks, kind) ==
    IF kind = "run_model" THEN tasks.train = "done"
    ELSE \A c \in 1 .. NChunks : tasks.run_model[c] = "done"

\* Parsl launches a pending run_model or combine_inferences task
parsl_launch ==
    /\ \/ \E c \in 1 .. NChunks :
             /\ ml_tasks.run_model[c] = "pending"
             /\ dependencies_done(ml_tasks, "run_model")
             /\ ml_tasks' = [ml_tasks EXCEPT !.run_model[c] = "running"]
       \/ /\ ml_tasks.combine = "pending"
          /\ dependencies_done(ml_tasks, "combine")
          /\ ml_tasks' = [ml_tasks EXCEPT !.combine = "running"]
    /\ UNCHANGED << colmena_vars, dropped, predictions, cell_pc, sim_futures, already_ran, train_data,
                    new_results >>

\* a running machine-learning task completes
parsl_task_done ==
    /\ \/ /\ ml_tasks.train = "running"
          /\ ml_tasks' = [ml_tasks EXCEPT !.train = "done"]
       \/ \E c \in 1 .. NChunks :
             /\ ml_tasks.run_model[c] = "running"
             /\ ml_tasks' = [ml_tasks EXCEPT !.run_model[c] = "done"]
       \/ /\ ml_tasks.combine = "running"
          /\ ml_tasks' = [ml_tasks EXCEPT !.combine = "done"]
    /\ UNCHANGED << colmena_vars, dropped, predictions, cell_pc, sim_futures, already_ran, train_data,
                    new_results >>

CellNext ==
    \/ cell_submit_initial
    \/ cell_initial_next
    \/ cell_initial_exit
    \/ cell_train
    \/ cell_infer
    \/ cell_combine
    \/ cell_predictions
    \/ cell_select
    \/ cell_batch_next
    \/ cell_batch_end

ParslNext ==
    \/ parsl_simulation_done
    \/ parsl_launch
    \/ parsl_task_done

NextParsl ==
    \/ CellNext
    \/ ParslNext

\* The model-in-the-loop cell of the batch workflow
SpecParsl == Init /\ [][NextParsl]_vars

\* a running simulation completes with a result
simulation_succeeds ==
    /\ parsl_simulation_done
    /\ in_state(sim_futures', "ok") > in_state(sim_futures, "ok")

\* The cell with the notebook's thread running, every task that Parsl holds
\* launched and completed, and simulations not failing for ever
FairSpecParsl ==
    /\ SpecParsl
    /\ WF_vars(CellNext)
    /\ WF_vars(ParslNext)
    /\ SF_vars(simulation_succeeds)

----------------------------------------------------------------------------
\* Properties

\* slots allocated over all task types plus the unallocated slots
total_allocated ==
    allocations["None"] + allocations["simulate"] + allocations["train"]
        + allocations["infer"]

\* slots of a pool that are acquired and not released
in_use(pool) == allocations[pool] - availability[pool]

\* tasks submitted by submit_calc whose result receive_calc has not taken yet
outstanding == Len(requests) + Len(results["default"])

\* receive_calc is handling a result
receiving == receive_pc \in {"release", "store", "stop", "append"}

C2_OutstandingBounded == outstanding <= NParallel

\* n_parallel tasks are outstanding and the submitter waits for a slot
C2_Witness == outstanding = NParallel /\ submit_pc = "acquire"

\* C3: a get_result on one topic never returns a result of another topic.
C3_TopicIsolation ==
    /\ nb_recv.outcome = "result" => nb_recv.result.topic = nb_recv.topic
    /\ receiving => result.topic = "default"

\* a get_result on 'simulate' returned while a result on 'infer' was pending
C3_Witness ==
    /\ nb_recv.outcome = "result"
    /\ nb_recv.topic = "simulate"
    /\ has_result(results, "infer")

C5_NothingAfterDone == late_acquires = 0 /\ late_sends = 0

\* C5 (amended): once the termination signal is set, the submitting agent
\* completes at most the one iteration whose termination check it had passed:
\* at most one acquisition and at most one submission follow the signal.
C5_AtMostOneAfterDone == late_acquires <= 1 /\ late_sends <= 1

\* a task was submitted after the signal was set, and the agent then exited
C5_Witness == late_sends = 1 /\ submit_pc = "exited"

\* C6: once run has returned, every submitted task has had its result taken
\* by the result processor and its slot released.
C6_NoLeakAfterRun ==
    main_pc = "returned" =>
        /\ outstanding = 0
        /\ in_use("simulate") = 0

C8_DoneOnlyAtTarget == done => Cardinality(database) >= NToEvaluate

\* C11 (as stated): release(label, n) lowers the label's allocated count by n
\* and raises the unallocated pool by n.
C11_ReleaseToUnallocated ==
    [][(receive_pc = "release" /\ receive_pc' = "store") =>
          /\ allocations'["simulate"] = allocations["simulate"] - 1
          /\ allocations'["None"] = allocations["None"] + 1
          /\ availability'["None"] = availability["None"] + 1]_vars

\* C11 (amended): release(label, n) gives the n slots back to the label's own
\* pool: the label's available slots are n higher, its allocation, the
\* unallocated pool and every other label are unchanged, and an acquire that
\* waits for the label can then take a slot.
C11_ReleaseToOwnPool ==
    [][(receive_pc = "release" /\ receive_pc' = "store") =>
          /\ availability'["simulate"] = availability["simulate"] + 1
          /\ \A p \in Pools \ {"simulate"} : availability'[p] = availability[p]
          /\ allocations' = allocations
          /\ can_acquire(availability', "simulate", N_SLOTS)]_vars

\* a slot was released while the submitter waited in acquire for one
C11_Witness ==
    /\ receive_pc = "store"
    /\ submit_pc = "acquire"
    /\ availability["simulate"] = 1
    /\ rec_progbar = NParallel

C15_NeverDropped ==
    [][\A t \in Topics :
          \/ results'[t] = results[t]
          \/ /\ Len(results'[t]) = Len(results[t]) + 1
             /\ SubSeq(results'[t], 1, Len(results[t])) = results[t]
          \/ /\ results[t] # << >>
             /\ results'[t] = Tail(results[t])
             /\ \/ /\ nb_recv'.outcome = "result"
                   /\ nb_recv'.topic = t
                   /\ nb_recv'.result = Head(results[t])
                \/ /\ t = "default"
                   /\ receive_pc' = "release"
                   /\ result' = Head(results[t])]_vars

\* a get_result on 'infer' timed out while a 'simulate' result stays buffered
C15_Witness ==
    /\ nb_recv.outcome = "timeout"
    /\ nb_recv.topic = "infer"
    /\ has_result(results, "simulate")

\* C16: a get_result with no result pending on its topic does not wait for
\* ever; its timeout sends the agent back to its loop, to try again, and
\* changes neither the pipes nor the resource counter nor done.
C16_TimeoutIsRetry ==
    /\ (receive_pc = "get_result") ~> (receive_pc # "get_result")
    /\ [][(/\ receive_pc = "get_result"
           /\ receive_pc' # "get_result"
           /\ ~ has_result(results, "default")) =>
             /\ receive_pc' = "check"
             /\ UNCHANGED << requests, results, allocations, availability, done >>]_vars

\* the agent is in get_result again after a timeout
C16_Witness ==
    /\ last_get = "timeout"
    /\ receive_pc = "get_result"
    /\ ~ done

\* molecules of the tasks in flight, buffered, in receive_calc's hands and stored
task_args ==
    { requests[i].args : i \in 1 .. Len(requests) }
        \cup { results["default"][i].args : i \in 1 .. Len(results["default"]) }
        \cup (IF receiving THEN {result.args} ELSE {})
        \cup { simulation_results[i].args : i \in 1 .. Len(simulation_results) }

consumed_args ==
    [i \in 1 .. Len(simulation_results) |-> simulation_results[i].args]
        \o (IF receiving THEN << result.args >> ELSE << >>)

\* molecules of the results buffered on the default topic
buffered_args ==
    [i \in 1 .. Len(results["default"]) |-> results["default"][i].args]

\* C18: the results of a topic are returned by get_result in the order in
\* which they arrived, whatever the order their requests were sent in.
C18_CompletionOrder == consumed_args \o buffered_args = arrival_log

\* the two tasks sent were both consumed, the second one sent first
C18_Witness ==
    /\ overtaken
    /\ rec_progbar = 2
    /\ Len(simulation_results) = 2

\* C19: the termination signal is unset at first, is set only when the
\* stopping condition (enough results in the database) is met, and once set
\* is never unset.
C19_OneShotAtStop ==
    /\ ~ done
    /\ [][/\ done => done'
          /\ (~ done /\ done') => enough_evaluated(database')]_vars

\* C20: the submitting agent holds its slot when it takes priority_list_lock,
\* never waits in acquire with the lock held, and while the thinker runs the
\* two agents are never both unable to move.
C20_LockOrder ==
    /\ submit_pc = "acquire" => priority_list_lock = "free"
    /\ priority_list_lock = "submit_calc" =>
          (submit_pc = "pop" /\ in_use("simulate") >= N_SLOTS)
    /\ (main_pc = "join" /\ ~ agents_exited) =>
          ENABLED (SubmitterNext \/ ProcessorNext)

\* the submitter holds the lock and the last slot while receive_calc is about
\* to release one
C20_Witness ==
    /\ priority_list_lock = "submit_calc"
    /\ availability["simulate"] = 0
    /\ receive_pc = "release"

\* slots acquired by submit_calc for a task it has not sent yet
submitting == IF submit_pc \in {"lock", "pop", "send"} THEN 1 ELSE 0

\* slots taken by submit_calc's agent that no task and no agent accounts for
unaccounted ==
    in_use("simulate") - outstanding - submitting
        - (IF receive_pc = "release" THEN 1 ELSE 0)

\* C21: receive_calc first releases the slot of the result it was given, then
\* updates the database and the counter, and only then tests the stopping
\* condition and sets the termination signal; when it sets the signal the
\* slot of the result that triggers it is already released.
C21_ReleaseStoreStop ==
    /\ [](receiving /\ receive_pc # "release" =>
            \/ unaccounted = 0
            \/ unaccounted = 1 /\ submit_pc = "exited" /\ priority_list = << >>)
    /\ [][/\ (receive_pc = "get_result" /\ receive_pc' # "get_result"
                /\ has_result(results, "default")) => receive_pc' = "release"
          /\ (receive_pc = "release" /\ receive_pc' # "release") =>
                /\ receive_pc' = "store"
                /\ availability'["simulate"] = availability["simulate"] + 1
                /\ UNCHANGED << database, sent_progbar, done >>
          /\ (receive_pc = "store" /\ receive_pc' # "store") =>
                /\ receive_pc' = IF result.success THEN "stop" ELSE "append"
                /\ result.success => /\ result.args \in database'
                                     /\ sent_progbar' = sent_progbar + 1
                /\ UNCHANGED << availability, done >>
          /\ (database' # database \/ sent_progbar' # sent_progbar) =>
                receive_pc = "store"
          /\ (receive_pc' # receive_pc /\ done' # done) =>
                /\ receive_pc = "stop"
                /\ result.args \in database
                /\ enough_evaluated(database)]_vars

\* receive_calc has just set the signal, after the slot of its result was
\* released and taken again by the submitter
C21_Witness ==
    /\ receive_pc = "append"
    /\ done
    /\ result.success
    /\ Cardinality(database) = NToEvaluate
    /\ submit_pc = "lock"
    /\ rec_progbar = NParallel

\* every slot has been reallocated from 'simulate' to 'train' and 'infer'
slots_away == allocations["train"] + allocations["infer"] = NParallel

\* tasks of a topic that are in flight or whose result is buffered
pending(topic) ==
    Len(SelectSeq(requests, LAMBDA r : r.topic = topic)) + Len(results[topic])

\* C22: once every slot has been reallocated from simulate to train and infer,
\* acquire('simulate', 1) cannot return for as long as no slot is reallocated
\* back, and it can return as soon as one is.
C22_BlocksUntilBack ==
    /\ [](slots_away => /\ ~ can_acquire(availability, "simulate", N_SLOTS)
                        /\ ~ ENABLED submit_acquire)
    /\ [](submit_pc = "acquire" /\ can_acquire(availability, "simulate", N_SLOTS)
            => ENABLED submit_acquire)
    /\ [][(slots_away /\ ~ slots_away') =>
             can_acquire(availability', "simulate", N_SLOTS)]_vars

\* the acquire returned with the first slot reallocated back to 'simulate'
C22_Witness ==
    /\ retrain_pc = "back_infer"
    /\ submit_pc = "lock"
    /\ allocations["simulate"] = NTrainSlots
    /\ availability["simulate"] = NTrainSlots - N_SLOTS

CycleOrder ==
    << "to_train", "to_infer", "send_train", "get_train", "send_infer",
       "get_infer", "lock", "sort", "back_train", "back_infer", "clear" >>

\* position of a step in the cycle (0 outside the cycle)
cycle_step(pc) ==
    IF \E i \in 1 .. Len(CycleOrder) : CycleOrder[i] = pc
    THEN CHOOSE i \in 1 .. Len(CycleOrder) : CycleOrder[i] = pc
    ELSE 0

\* C25: a retraining cycle starts only once a batch of results is in the
\* database; it moves the slots away, submits one training task and receives
\* its result, then submits the inference and receives its result, then
\* re-sorts the priority list, and only then moves the slots back.
C25_CycleInOrder ==
    /\ [](cycle_step(retrain_pc) > 0 => Cardinality(database) >= BatchSize)
    /\ [](pending("train") + pending("infer") <= 1)
    /\ [](pending("train") + pending("infer") = 1 => slots_away)
    /\ [][/\ pending("train")' > pending("train") =>
                /\ slots_away
                /\ pending("infer") = 0
          /\ pending("infer")' > pending("infer") =>
                /\ slots_away
                /\ pending("train") = 0
                /\ retrain_pc = "send_infer"
          /\ (cycle_step(retrain_pc) > 0 /\ retrain_pc' # retrain_pc) =>
                \/ cycle_step(retrain_pc') = cycle_step(retrain_pc) + 1
                \/ /\ retrain_pc' = "check"
                   /\ \/ retrain_pc = "clear"
                      \/ done /\ cycle_step(retrain_pc) <= 2
          /\ (priority_list' # priority_list /\ retrain_pc' # retrain_pc) =>
                /\ retrain_pc = "sort"
                /\ slots_away
          /\ allocations'["simulate"] > allocations["simulate"] =>
                \/ main_pc = "reallocate"
                \/ /\ retrain_pc \in {"back_train", "back_infer"}
                   /\ pending("train") + pending("infer") = 0]_vars

\* a cycle has run to its end: the slots are back and the signal is cleared next
C25_Witness ==
    /\ retrain_pc = "clear"
    /\ allocations["simulate"] = NParallel
    /\ priority_list # << >>
    /\ ~ done

\* a failed simulation has been handed to receive_calc
some_failure ==
    \/ receiving /\ ~ result.success
    \/ \E i \in 1 .. Len(simulation_results) : ~ simulation_results[i].success

\* C26: a failed result has its slot released, ends no agent and does not set
\* the termination signal, and the submitting agent that takes a slot after a
\* failure finds a candidate to submit in its place.
C26_FailureReplaced ==
    [][/\ (receive_pc = "release" /\ receive_pc' # "release" /\ ~ result.success) =>
             availability'["simulate"] = availability["simulate"] + 1
       /\ (receiving /\ ~ result.success /\ receive_pc' # receive_pc) =>
             /\ receive_pc' # "exited"
             /\ done' = done
       /\ (some_failure /\ submit_pc = "pop" /\ submit_pc' # "pop") =>
             /\ submit_pc' = "send"
             /\ done' = done]_vars

\* agents inside a read-modify-write of the priority list
in_priority_list == IF submit_pc = "pop" THEN {"submit_calc"} ELSE {}

\* agents inside a read-modify-write of the database
in_database == IF receive_pc \in {"store", "stop"} THEN {"receive_calc"} ELSE {}

\* C27: no two agents are ever inside a read-modify-write of the same shared
\* structure: the priority list is changed only by the agent that holds
\* priority_list_lock, and the database only by receive_calc's agent.
C27_MutualExclusion ==
    /\ [](Cardinality(in_priority_list) <= 1 /\ Cardinality(in_database) <= 1)
    /\ [](in_priority_list # {} => in_priority_list = {priority_list_lock})
    /\ [][/\ priority_list' # priority_list =>
                /\ priority_list_lock = "submit_calc"
                /\ in_priority_list = {"submit_calc"}
          /\ database' # database =>
                /\ in_database = {"receive_calc"}
                /\ receive_pc' # receive_pc]_vars

\* submit_calc pops under the lock while receive_calc writes the database
C27_Witness ==
    /\ in_priority_list = {"submit_calc"}
    /\ in_database = {"receive_calc"}
    /\ result.success
    /\ priority_list # << >>


\* C29: in the batch workflow no run_model task has started unless the
\* train_model task whose future it takes has completed, and
\* combine_inferences has not started unless every run_model task passed to
\* it has finished; the tasks start only in that order.
C29_DependenciesRespected ==
    /\ [](/\ \A c \in 1 .. NChunks :
                ml_tasks.run_model[c] \in {"running", "done"}
                   => ml_tasks.train = "done"
          /\ ml_tasks.combine \in {"running", "done"}
                => \A c \in 1 .. NChunks : ml_tasks.run_model[c] = "done")
    /\ [][/\ \A c \in 1 .. NChunks :
                ml_tasks.run_model[c] # "running" /\ ml_tasks'.run_model[c] = "running"
                   => ml_tasks.train = "done"
          /\ ml_tasks.combine # "running" /\ ml_tasks'.combine = "running"
                => \A c \in 1 .. NChunks : ml_tasks.run_model[c] = "done"]_vars

C29_Witness ==
    /\ ml_tasks.combine = "running"
    /\ cell_pc = "predictions"
    /\ \A c \in 1 .. NChunks : ml_tasks.run_model[c] = "done"

\* C30: in the initial loop of the batch workflow the running futures and the
\* stored successes together number initial_count; handling a failed
\* simulation puts exactly one new running simulation in its place and stores
\* nothing, handling a success stores exactly its result; the loop is left
\* with initial_count successes stored, and is left once they are.
C30_InitialLoopReplaces ==
    /\ [](cell_pc = "initial"
            => /\ Len(sim_futures) + Len(train_data) = InitialCount
               /\ (Len(train_data) = InitialCount) = (ENABLED cell_initial_exit))
    /\ [][cell_pc = "initial"
            => /\ in_state(sim_futures', "failed") < in_state(sim_futures, "failed")
                  => /\ in_state(sim_futures', "failed")
                           = in_state(sim_futures, "failed") - 1
                     /\ in_state(sim_futures', "running")
                           = in_state(sim_futures, "running") + 1
                     /\ Len(sim_futures') = Len(sim_futures)
                     /\ train_data' = train_data
               /\ in_state(sim_futures', "ok") < in_state(sim_futures, "ok")
                  => /\ in_state(sim_futures', "ok")
                           = in_state(sim_futures, "ok") - 1
                     /\ Len(sim_futures') = Len(sim_futures) - 1
                     /\ \E i \in completed(sim_futures) :
                           /\ sim_futures[i].state = "ok"
                           /\ train_data' = Append(train_data, sim_futures[i].smiles)
               /\ train_data' # train_data
                  => in_state(sim_futures', "ok") < in_state(sim_futures, "ok")
               /\ cell_pc' # "initial"
                  => /\ Len(train_data) = InitialCount
                     /\ sim_futures = << >>
                     /\ train_data' = train_data]_vars

C30_Witness ==
    /\ cell_pc = "loop"
    /\ Len(train_data) = InitialCount
    /\ Cardinality(already_ran) > InitialCount
    /\ ml_tasks = NoTasks

\* C31: with every submitted task completing, the model-in-the-loop cell
\* eventually leaves its loop, and when it has left it train_data holds at
\* least search_count results.
C31_LoopTerminates ==
    /\ <>(cell_pc = "finished")
    /\ [](cell_pc = "finished" => Len(train_data) >= NToEvaluate)

\* the machine-learning tasks submitted and not yet complete
ml_outstanding ==
    { k \in {"train", "combine"} : ml_tasks[k] \in {"pending", "running"} }
    \cup { "run_model" : c \in { d \in 1 .. NChunks :
                                    ml_tasks.run_model[d] \in {"pending", "running"} } }

\* C32: in the batch workflow no simulation is outstanding while a training
\* or inference task is, and the other way round; a training task is
\* submitted only when every simulation submitted before it has completed,
\* and a batch of simulations only when every machine-learning task has.
C32_OneTaskTypeAtATime ==
    /\ [](in_state(sim_futures, "running") = 0 \/ ml_outstanding = {})
    /\ [][/\ ml_outstanding = {} /\ ml_outstanding' # {}
             => in_state(sim_futures, "running") = 0 /\ sim_futures = << >>
          /\ in_state(sim_futures', "running") > in_state(sim_futures, "running")
             => ml_outstanding = {} /\ ml_outstanding' = {}]_vars

C32_Witness ==
    /\ cell_pc = "batch"
    /\ in_state(sim_futures, "running") = BatchSize
    /\ ml_outstanding = {}
    /\ Len(train_data) = InitialCount

\* C33: submit_calc's agent never gives a slot back, and in every state of
\* the throttled policy the 'simulate' slots held are as many as the tasks
\* whose slot was acquired and whose result receive_calc has not yet taken up.
C33_HeldMatchesTasks ==
    /\ [](unaccounted = 0)
    /\ [][SubmitterNext =>
            availability'["simulate"] <= availability["simulate"]]_vars

\* the retraining cycle is between its first reallocation and its last
in_cycle == cycle_step(retrain_pc) > 1 /\ retrain_pc # "clear"

\* C34: when a retraining cycle has moved the slots back, 'simulate' has the
\* allocation it had when the cycle started and 'train' and 'infer' have
\* none, however many cycles have run and whatever simulation results were
\* released while the slots were being gathered; the allocation differs from
\* that only inside a cycle.
C34_AllocationRestored ==
    /\ [](retrain_pc \in {"to_train", "clear"}
            => /\ allocations["simulate"] = NParallel
               /\ allocations["train"] = 0 /\ allocations["infer"] = 0
               /\ availability["train"] = 0 /\ availability["infer"] = 0)
    /\ [][(retrain_pc = "back_infer" /\ retrain_pc' = "clear")
            => /\ allocations'["simulate"] = NParallel
               /\ allocations'["train"] + allocations'["infer"] = 0]_vars
    /\ [](allocations["train"] + allocations["infer"] > 0
            => in_cycle \/ (done /\ retrain_pc \in {"check", "exited"}))

\* a second cycle has run to its end
C34_Witness ==
    /\ retrain_pc = "clear"
    /\ Cardinality(database) > BatchSize
    /\ allocations["simulate"] = NParallel
    /\ availability["simulate"] > 0

\* the candidates still on the priority list
listed == { priority_list[i] : i \in 1 .. Len(priority_list) }

\* C35: RandomThinker never submits a molecule twice: the priority list has
\* no repeats and holds no molecule already taken from it, and the molecule
\* of every submission is one that no earlier submission had.
C35_NoRepeatSubmission ==
    /\ [](/\ Cardinality(listed) = Len(priority_list)
          /\ listed \cap task_args = {}
          /\ submit_pc = "send" => next_mol \notin listed \cup task_args)
    /\ [][rec_progbar' # rec_progbar
            => /\ next_mol \notin task_args
               /\ task_args' = task_args \cup {next_mol}
               /\ Cardinality(task_args') = rec_progbar']_vars

\* every molecule of the search space was submitted, each once
C35_Witness ==
    /\ rec_progbar = MaxMols
    /\ task_args = Mols
    /\ priority_list = << >>

\* C36: whenever submit_calc takes a candidate, the priority list is not empty.
C36_NeverPopsEmpty == submit_pc = "pop" => priority_list # << >>

\* molecules of the successful results receive_calc has taken
succeeded ==
    { simulation_results[i].args :
        i \in { j \in 1 .. Len(simulation_results) : simulation_results[j].success } }
    \cup (IF receiving /\ result.success THEN {result.args} ELSE {})

\* C37: the database of RandomThinker holds results of successful simulations
\* only and never more than n_to_evaluate of them; receive_calc, given a
\* failure, adds nothing and does not set the termination signal, and given
\* a success adds exactly one entry.
C37_DatabaseOnlySuccesses ==
    /\ [](/\ database \subseteq succeeded
          /\ Cardinality(database) <= NToEvaluate
          /\ sent_progbar = Cardinality(database))
    /\ [][/\ (ProcessorNext /\ receiving /\ ~ result.success)
                => database' = database /\ done' = done
          /\ database' # database
                => /\ receive_pc = "store" /\ result.success
                   /\ database' = database \cup {result.args}
                   /\ Cardinality(database') = Cardinality(database) + 1
          /\ (receive_pc = "store" /\ receive_pc' # "store" /\ result.success)
                => result.args \in database' /\ result.args \notin database]_vars

\* the target is reached with a failure among the results taken
C37_Witness ==
    /\ Cardinality(database) = NToEvaluate
    /\ done
    /\ receive_pc = "exited"
    /\ \E i \in 1 .. Len(simulation_results) : ~ simulation_results[i].success

\* molecules whose simulation was submitted: handled ones and those in the list
submitted ==
    already_ran \cup { sim_futures[i].smiles : i \in 1 .. Len(sim_futures) }

\* C38: in the batch workflow every simulation submitted (the initial ones,
\* the replacements of failed ones, those of every batch) is of a molecule
\* that no simulation was submitted for before, so no molecule is stored twice.
C38_NoMoleculeTwice ==
    /\ [](\A i, j \in 1 .. Len(train_data) : train_data[i] = train_data[j] => i = j)
    /\ [][/\ (/\ cell_pc = "initial"
              /\ in_state(sim_futures', "failed") < in_state(sim_futures, "failed"))
                => sim_futures'[Len(sim_futures')].smiles \notin submitted
          /\ (cell_pc \in {"start", "select"} /\ cell_pc' # cell_pc)
                => \A i \in 1 .. Len(sim_futures') :
                      /\ sim_futures'[i].smiles \notin submitted
                      /\ \A j \in 1 .. Len(sim_futures') :
                            sim_futures'[i].smiles = sim_futures'[j].smiles
                               => i = j]_vars

\* place of a molecule in the predictions, 1 for the best predicted
rank(smiles) == CHOOSE i \in 1 .. Len(predictions) : predictions[i] = smiles

\* C39: a batch has at most batch_size simulations, of molecules not in
\* already_ran, best predicted first, and no molecule left out is predicted
\* better than one taken or is left out of a batch that is not full; when
\* the loop is left train_data holds at least search_count results and
\* fewer than search_count + batch_size.
C39_BatchBestFirst ==
    /\ [](cell_pc = "finished"
            => /\ Len(train_data) >= NToEvaluate
               /\ Len(train_data) < NToEvaluate + BatchSize)
    /\ [](cell_pc = "batch" => Len(sim_futures) + Len(new_results) <= BatchSize)
    /\ [][(cell_pc = "select" /\ cell_pc' # "select")
            => /\ Len(sim_futures') <= BatchSize
               /\ \A i \in 1 .. Len(sim_futures') :
                     /\ sim_futures'[i].state = "running"
                     /\ sim_futures'[i].smiles \notin already_ran
                     /\ \A j \in 1 .. Len(sim_futures') :
                           i < j => rank(sim_futures'[i].smiles)
                                       < rank(sim_futures'[j].smiles)
               /\ \A smiles \in Mols \ already_ran' :
                     /\ Len(sim_futures') = BatchSize
                     /\ \A i \in 1 .. Len(sim_futures') :
                           rank(sim_futures'[i].smiles) < rank(smiles)]_vars

\* the loop is left after a batch, some molecule submitted having failed
C39_Witness ==
    /\ cell_pc = "finished"
    /\ Len(train_data) >= NToEvaluate
    /\ Cardinality(already_ran) > Len(train_data)
    /\ new_results # << >>

\* the records of a list of stored molecules
records(data) == { data[i] : i \in 1 .. Len(data) }

\* C40: a simulation that fails in a batch is dropped: the step that handles
\* it submits nothing and stores nothing, and from then on its molecule is in
\* already_ran, has no simulation submitted and has no record in new_results
\* or train_data.
C40_BatchFailureDropped ==
    /\ [](\A smiles \in dropped :
             /\ smiles \in already_ran
             /\ smiles \notin records(train_data) \cup records(new_results)
             /\ \A i \in 1 .. Len(sim_futures) : sim_futures[i].smiles # smiles)
    /\ [][/\ dropped \subseteq dropped'
          /\ dropped' # dropped
                => /\ cell_pc = "batch" /\ cell_pc' = "batch"
                   /\ in_state(sim_futures, "failed") > 0
                   /\ Len(sim_futures') = Len(sim_futures) - 1
                   /\ in_state(sim_futures', "running")
                         = in_state(sim_futures, "running")
                   /\ UNCHANGED << new_results, train_data, already_ran >>
          /\ (cell_pc = "batch"
                /\ in_state(sim_futures', "failed") < in_state(sim_futures, "failed"))
                => dropped' # dropped]_vars

\* with one molecule dropped the next batch is running
C40_Witness ==
    /\ dropped # {}
    /\ cell_pc = "batch"
    /\ in_state(sim_futures, "running") > 0

====
